---- MODULE Spec2Model ----
(***************************************************************************)
(* kube-dump: a one-shot dumper of a Kubernetes cluster's objects to a     *)
(* directory tree.  The module models                                      *)
(*   - the Layout Engine (src/src/layout.rs): paths as character strings,  *)
(*   - the unused discovery module (src/src/discover.rs),                  *)
(*   - the kubectl runner and its semaphore (src/src/kubectl.rs),          *)
(*   - the generic dumper (src/src/generic.rs) and main's passes           *)
(*     (src/src/main.rs) over a small file system.                         *)
(* A string is a sequence of one-character strings, so that replace,       *)
(* format! and path joins are computed character by character.             *)
(***************************************************************************)
EXTENDS Integers, Sequences, FiniteSets, TLC

VARIABLES
    lay_escape,   \* Layout.escape (opts.escape_paths)
    lay_t1,       \* a write target: identity + artifact
    lay_t2,       \* a second write target
    lay_p1,       \* the path computed for lay_t1 (empty before the call)
    lay_p2,       \* the path computed for lay_t2
    lay_pc,       \* "off" | "input" | "done"
    disc_pc,      \* where discover_apis is
    disc_groups,  \* discover_grouped_apis: `groups.groups`
    disc_i,       \* discover_grouped_apis: index of the next group
    disc_apis,    \* discover_grouped_apis: `apis`
    disc_grouped, \* discover_apis: `grouped_apis`, a Result
    disc_versions,\* discover_legacy_apis: `versions`
    disc_legacy,  \* discover_apis: `legacy_apis`, a Result
    disc_result,  \* what discover_apis returned
    disc_seen,    \* the responses the API server gave, in request order
    kc_pc,        \* "off" | "new" (before Kubectl::try_new) | "ready"
    kc_enabled,   \* Kubectl.enabled
    kc_permits,   \* Kubectl.sem: the permits available
    kc_queue,     \* Kubectl.sem: the callers waiting in acquire_owned, in order
    kc_call,      \* per caller of exec: "idle", "waiting", "holding", "running", "done"
    kc_res,       \* per caller of exec: what exec returned
    kc_children,  \* the callers whose kubectl child process is running
    kc_spawned,   \* the callers whose exec ever started a process
    kc_took,      \* the callers whose exec ever took a permit
    m_pc,         \* main: the step it is at, "exit" once it returned
    m_result,     \* main: "none", then "Ok" or the error main returned
    opts,         \* Opts: strip and escape_paths
    apis,         \* Environment.apis: (ApiResource, ApiCapabilities) pairs
    cluster,      \* what the cluster may hold: object names, events
    fs_dirs,      \* the directories that exist
    fs_files,     \* the files that exist: path -> content
    faults,       \* I/O errors injected so far
    g_pc,         \* generic::dump: "idle", "version", "apis", "types", "objects", "returned"
    g_i,          \* generic::dump: index of the current entry of env.apis
    g_list,       \* dump_api_group: `object_list`
    g_j,          \* dump_api_group: index of the next object
    g_outcome,    \* per entry of env.apis: how its turn of dump's loop ended
    g_lists,      \* per entry of env.apis: the objects its list request returned
    g_result,     \* generic::dump: "none", then "Ok" or "Err"
    t_pc,         \* dump_typed_simple: "idle", "list", "objects"
    t_list,       \* dump_typed_simple: `objects`
    t_j,          \* dump_typed_simple: index of the next object
    t_c,          \* dump_pod: index of the next container
    t_fetches,    \* dump_pod: the log fetches made so far and what each gave
    e_pc,         \* dump_events: "idle", "list", "groups", "returned"
    e_events,     \* dump_events: `events`, as the list request returned them
    e_mapping,    \* dump_events: `mapping`, InvolvedObject -> events
    e_keys,       \* dump_events: the keys of `mapping` in BTreeMap order
    e_k,          \* dump_events: index of the next group
    e_skipped,    \* dump_events: the groups skipped with a diagnostic
    e_result      \* dump_events: "none", then "Ok" or "Err"

layVars == <<lay_escape, lay_t1, lay_t2, lay_p1, lay_p2, lay_pc>>
discVars == <<disc_pc, disc_groups, disc_i, disc_apis, disc_grouped,
              disc_versions, disc_legacy, disc_result, disc_seen>>

kcVars == <<kc_pc, kc_enabled, kc_permits, kc_queue, kc_call, kc_res,
            kc_children, kc_spawned, kc_took>>

fsVars == <<fs_dirs, fs_files, faults>>
envVars == <<opts, apis, cluster>>
genVars == <<g_pc, g_i, g_list, g_j, g_outcome, g_lists, g_result>>
typedVars == <<t_pc, t_list, t_j, t_c, t_fetches>>
evVars == <<e_pc, e_events, e_mapping, e_keys, e_k, e_skipped, e_result>>
mainVars == <<m_pc, m_result, envVars, fsVars, genVars, typedVars, evVars>>

\* Option<T>: None is the empty sequence, Some(x) the one-element sequence
None == <<>>
Some(x) == <<x>>
IsSome(o) == o # <<>>
Unwrap(o) == o[1]

-----------------------------------------------------------------------------
(* Strings *)

RECURSIVE Flatten(_)
\* concatenation of a sequence of strings
Flatten(ss) == IF ss = <<>> THEN <<>> ELSE Head(ss) \o Flatten(Tail(ss))

RECURSIVE SeqsUpTo(_, _)
\* all sequences over S of length at most n
SeqsUpTo(S, n) ==
    IF n = 0 THEN {<<>>}
    ELSE LET shorter == SeqsUpTo(S, n - 1)
         IN shorter \cup {Append(s, x) : s \in shorter, x \in S}

RECURSIVE Replace(_, _, _)
\* str::replace(from, to): every non-overlapping match, left to right
Replace(s, from, to) ==
    IF Len(s) < Len(from) THEN s
    ELSE IF SubSeq(s, 1, Len(from)) = from
         THEN to \o Replace(SubSeq(s, Len(from) + 1, Len(s)), from, to)
         ELSE <<Head(s)>> \o Replace(Tail(s), from, to)

Slash == <<"/">>
Tilde == <<"~">>
Colon == <<":">>
STilda == <<"~", "t", "i", "l", "d", "a", "_">>
SColon == <<"~", "c", "o", "l", "o", "n", "_">>
SRoot == <<"o", "u", "t">>
SGlobal == <<"_", "g", "l", "o", "b", "a", "l", "_">>
SRawJson == <<"r", "a", "w", ".", "j", "s", "o", "n">>
SEventsTxt == <<"e", "v", "e", "n", "t", "s", ".", "t", "x", "t">>
SLogs == <<"l", "o", "g", "s", "-">>
SPrev == <<"-", "p", "r", "e", "v">>
STxt == <<".", "t", "x", "t">>
SData == <<"d", "a", "t", "a", "-">>
SPod == <<"P", "o", "d">>
SConfigMap == <<"C", "o", "n", "f", "i", "g", "M", "a", "p">>
SSecret == <<"S", "e", "c", "r", "e", "t">>
SDeployment == <<"D", "e", "p", "l", "o", "y">>
SBinding == <<"B", "i", "n", "d", "i", "n", "g">>
SApps == <<"a", "p", "p", "s">>

-----------------------------------------------------------------------------
(* Layout Engine: src/src/layout.rs *)

\* PathBuf::join / push of a relative component
Join(p, seg) == p \o Slash \o seg

\* the mutant: the two replacements in the other order
MaybeEscapeNameColonFirst(escape, name) ==
    IF ~escape THEN name
    ELSE Replace(Replace(name, Colon, SColon), Tilde, STilda)

\* Layout::maybe_escape_name
MaybeEscapeName(escape, name) ==
    IF ~escape THEN name
    ELSE Replace(Replace(name, Tilde, STilda), Colon, SColon)

\* Layout::object_layout: the object's root directory
ObjectLayout(escape, resource, namespace, name) ==
    LET p1 == IF IsSome(namespace) THEN Join(SRoot, Unwrap(namespace))
              ELSE Join(SRoot, SGlobal)
        full_kind == IF resource.group # <<>>
                     THEN resource.group \o Slash \o resource.kind
                     ELSE resource.kind
    IN Join(Join(p1, full_kind), MaybeEscapeName(escape, name))

\* ObjectLayout::representation
Representation(root) == Join(root, SRawJson)

\* ObjectLayout::logs
Logs(root, kind, container_name) ==
    LET sfx == IF kind = "Current" THEN <<>> ELSE SPrev
    IN Join(root, SLogs \o container_name \o sfx \o STxt)

\* ObjectLayout::data_piece
DataPiece(root, key) == Join(root, SData \o key)

\* ObjectLayout::event_log
EventLog(root) == Join(root, SEventsTxt)

\* the path a writer uses for one artifact of one object
ArtifactPath(root, art) ==
    CASE art.what = "raw" -> Representation(root)
      [] art.what = "logs" -> Logs(root, art.kind, art.container)
      [] art.what = "data" -> DataPiece(root, art.key)
      [] art.what = "events" -> EventLog(root)

TargetPath(escape, t) ==
    ArtifactPath(ObjectLayout(escape, t.resource, t.namespace, t.name), t.art)

-----------------------------------------------------------------------------
(* Inputs of the layout specifications *)

\* the longest name of SpecEscape, in pieces
MaxPieces == 3

\* the pieces names are built from: the two escaped characters, the literal
\* texts of the escape sequences, and a character that is left alone
NamePieces == {Tilde, Colon, <<"t", "i", "l", "d", "a", "_">>,
               <<"c", "o", "l", "o", "n", "_">>, <<"a">>}

EscapeNames == {Flatten(ps) : ps \in SeqsUpTo(NamePieces, MaxPieces)} \ {<<>>}

RawArtifact == [what |-> "raw"]

LayResources == {[group |-> <<>>, kind |-> SPod],
                 [group |-> SApps, kind |-> SDeployment]}
LayNamespaces == {None, Some(<<"n">>)}
LayNames == {<<"a">>, <<"b">>, <<"a", ":">>}
LayContainers == {<<"c">>, <<"c">> \o SPrev}
LayKeys == {<<"k">>, <<"j">>}
LayArtifacts ==
    {RawArtifact, [what |-> "events"]}
    \cup {[what |-> "logs", kind |-> k, container |-> c] :
            k \in {"Current", "Previous"}, c \in LayContainers}
    \cup {[what |-> "data", key |-> k] : k \in LayKeys}

\* only pods, which are namespaced, have container logs
LayTargets ==
    {t \in [resource : LayResources, namespace : LayNamespaces,
            name : LayNames, art : LayArtifacts] :
        t.art.what = "logs" =>
            (t.resource.kind = SPod /\ IsSome(t.namespace))}

\* two names of one resource and namespace: maybe_escape_name's inputs
EscapeTargets ==
    {[resource |-> [group |-> <<>>, kind |-> SPod], namespace |-> Some(<<"n">>),
      name |-> n, art |-> RawArtifact] : n \in EscapeNames}

LayOff ==
    /\ lay_escape = FALSE
    /\ lay_t1 = <<>>
    /\ lay_t2 = <<>>
    /\ lay_p1 = <<>>
    /\ lay_p2 = <<>>
    /\ lay_pc = "off"

LayInit(Targets) ==
    /\ lay_escape \in BOOLEAN
    /\ lay_t1 \in Targets
    /\ lay_t2 \in Targets
    /\ lay_p1 = <<>>
    /\ lay_p2 = <<>>
    /\ lay_pc = "input"

\* the writers compute the two targets' paths
ComputePaths ==
    /\ lay_pc = "input"
    /\ lay_p1' = TargetPath(lay_escape, lay_t1)
    /\ lay_p2' = TargetPath(lay_escape, lay_t2)
    /\ lay_pc' = "done"
    /\ UNCHANGED <<lay_escape, lay_t1, lay_t2>>
    /\ UNCHANGED <<discVars, kcVars, mainVars>>


-----------------------------------------------------------------------------
(* Results *)

\* anyhow::Result<T>: Ok(v), or an error, whose text is not modelled
Ok(v) == [ok |-> TRUE, v |-> v]
Err == [ok |-> FALSE, v |-> <<>>]

-----------------------------------------------------------------------------
(* Discovery: src/src/discover.rs *)

\* the most groups of a group list, and the most entries of a resource list
MaxGroups == 2
MaxRes == 2

\* str::contains(char)
Contains(s, c) == \E k \in 1..Len(s) : s[k] = c

SDeployments == <<"d", "e", "p", "l", "o", "y", "s">>
SPods == <<"p", "o", "d", "s">>
SBindings == <<"b", "i", "n", "d", "i", "n", "g", "s">>

\* metav1::APIResource entries a resource list may hold: a listable resource,
\* a listable subresource, and a resource without the list verb
ResEntries ==
    {[name |-> SDeployments, kind |-> SDeployment, verbs |-> <<"get", "list">>],
     [name |-> SDeployments \o Slash \o <<"s">>, kind |-> SDeployment,
      verbs |-> <<"list">>],
     [name |-> SBindings, kind |-> SBinding, verbs |-> <<"create">>]}

\* metav1::APIGroup values: two groups with a preferred version, one without
GroupPool ==
    {[name |-> "apps", preferred_version |-> Some("v1")],
     [name |-> "batch", preferred_version |-> Some("v1")],
     [name |-> "policy", preferred_version |-> None]}

\* metav1::APIGroupList values: each group is named once
GroupLists ==
    {gs \in SeqsUpTo(GroupPool, MaxGroups) :
        \A i, j \in 1..Len(gs) : i # j => gs[i].name # gs[j].name}

\* the legacy group's versions lists, and its resource list
LegacyVersionLists == {<<>>, <<"v0">>, <<"v0", "v1">>}
LegacyResources ==
    <<[name |-> SPods, kind |-> SPod, verbs |-> <<"list", "watch">>],
      [name |-> SPods \o Slash \o <<"l">>, kind |-> SPod, verbs |-> <<"get">>]>>

\* ApiResource::from_kube_api_resource_list
FromKubeApiResourceList(list) ==
    LET keep(r) == /\ ~Contains(r.name, "/")
                   /\ \E k \in 1..Len(r.verbs) : r.verbs[k] = "list"
        kept == SelectSeq(list.resources, keep)
    IN [k \in 1..Len(kept) |->
            [api_group |-> list.group_version, kind |-> kept[k].kind,
             plural |-> kept[k].name]]

DiscOff ==
    /\ disc_pc = "off"
    /\ disc_groups = <<>>
    /\ disc_i = 0
    /\ disc_apis = <<>>
    /\ disc_grouped = Err
    /\ disc_versions = <<>>
    /\ disc_legacy = Err
    /\ disc_result = Err
    /\ disc_seen = <<>>

\* discover_apis is called
DiscInit ==
    /\ disc_pc = "list_groups"
    /\ disc_groups = <<>>
    /\ disc_i = 0
    /\ disc_apis = <<>>
    /\ disc_grouped = Err
    /\ disc_versions = <<>>
    /\ disc_legacy = Err
    /\ disc_result = Err
    /\ disc_seen = <<>>

Saw(what, resp) == disc_seen' = Append(disc_seen, [req |-> what, resp |-> resp])

\* discover_grouped_apis: `client.list_api_groups().await?`
ListApiGroups ==
    /\ disc_pc = "list_groups"
    /\ \E resp \in {Err} \cup {Ok(gs) : gs \in GroupLists} :
        /\ Saw(<<"groups", 0>>, resp)
        /\ IF resp.ok
           THEN /\ disc_groups' = resp.v
                /\ disc_i' = 1
                /\ disc_pc' = "group"
                /\ UNCHANGED disc_grouped
           ELSE /\ disc_grouped' = Err
                /\ disc_pc' = "legacy_versions"
                /\ UNCHANGED <<disc_groups, disc_i>>
    /\ UNCHANGED <<disc_apis, disc_versions, disc_legacy, disc_result>>
    /\ UNCHANGED <<layVars, kcVars, mainVars>>

\* the mutant: a group that fails to enumerate fails the whole enumeration
DiscoverGroupResultFatal(group_apis) ==
    IF group_apis.ok THEN Ok(disc_apis \o group_apis.v) ELSE Err

\* discover_grouped_apis, the match on discover_api_group's result: `apis`
\* after the group, or the error the function returns (it returns none)
DiscoverGroupResult(group_apis) ==
    IF group_apis.ok THEN Ok(disc_apis \o group_apis.v) ELSE Ok(disc_apis)

\* one turn of discover_grouped_apis's loop, discover_api_group included:
\* without a preferredVersion no request is made
DiscoverApiGroup ==
    /\ disc_pc = "group"
    /\ disc_i <= Len(disc_groups)
    /\ LET group == disc_groups[disc_i]
           has_version == IsSome(group.preferred_version)
           Lists == {[group_version |-> <<group.name, Unwrap(group.preferred_version)>>,
                      resources |-> rs] : rs \in SeqsUpTo(ResEntries, MaxRes)}
       IN \E resp \in IF has_version THEN {Err} \cup {Ok(l) : l \in Lists}
                      ELSE {Err} :
            LET group_apis == IF resp.ok
                              THEN Ok(FromKubeApiResourceList(resp.v))
                              ELSE Err
                after == DiscoverGroupResult(group_apis)
            IN /\ Saw(<<IF has_version THEN "group" ELSE "no_version", disc_i>>,
                      resp)
               /\ IF after.ok
                  THEN /\ disc_apis' = after.v
                       /\ disc_i' = disc_i + 1
                       /\ UNCHANGED <<disc_pc, disc_grouped>>
                  ELSE /\ disc_grouped' = Err
                       /\ disc_pc' = "legacy_versions"
                       /\ UNCHANGED <<disc_apis, disc_i>>
    /\ UNCHANGED <<disc_groups, disc_versions, disc_legacy, disc_result>>
    /\ UNCHANGED <<layVars, kcVars, mainVars>>

\* discover_grouped_apis returns Ok(apis)
GroupedDone ==
    /\ disc_pc = "group"
    /\ disc_i > Len(disc_groups)
    /\ disc_grouped' = Ok(disc_apis)
    /\ disc_pc' = "legacy_versions"
    /\ UNCHANGED <<disc_groups, disc_i, disc_apis, disc_versions, disc_legacy,
                   disc_result, disc_seen>>
    /\ UNCHANGED <<layVars, kcVars, mainVars>>

\* discover_legacy_apis: `client.list_legacy_api_versions().await...?`
ListLegacyVersions ==
    /\ disc_pc = "legacy_versions"
    /\ \E resp \in {Err} \cup {Ok(vs) : vs \in LegacyVersionLists} :
        /\ Saw(<<"versions", 0>>, resp)
        /\ IF resp.ok
           THEN /\ disc_versions' = resp.v
                /\ disc_pc' = "legacy_resources"
                /\ UNCHANGED disc_legacy
           ELSE /\ disc_legacy' = Err
                /\ disc_pc' = "merge"
                /\ UNCHANGED disc_versions
    /\ UNCHANGED <<disc_groups, disc_i, disc_apis, disc_grouped, disc_result>>
    /\ UNCHANGED <<layVars, kcVars, mainVars>>

\* discover_legacy_apis: the search for "v1", then the resource list or bail!
ListLegacyResources ==
    /\ disc_pc = "legacy_resources"
    /\ IF \E k \in 1..Len(disc_versions) : disc_versions[k] = "v1"
       THEN \E resp \in {Err, Ok([group_version |-> <<"v1">>,
                                  resources |-> LegacyResources])} :
                /\ Saw(<<"legacy", 0>>, resp)
                /\ disc_legacy' = IF resp.ok
                                  THEN Ok(FromKubeApiResourceList(resp.v))
                                  ELSE Err
       ELSE /\ disc_legacy' = Err
            /\ UNCHANGED disc_seen
    /\ disc_pc' = "merge"
    /\ UNCHANGED <<disc_groups, disc_i, disc_apis, disc_grouped, disc_versions,
                   disc_result>>
    /\ UNCHANGED <<layVars, kcVars, mainVars>>

\* the mutant: the two results are unwrapped with `?`
MergeApiListsPropagate(grouped_apis, legacy_apis) ==
    IF grouped_apis.ok /\ legacy_apis.ok
    THEN Ok(grouped_apis.v \o legacy_apis.v)
    ELSE Err

\* discover_apis: the loop over vec![grouped_apis, legacy_apis]
MergeApiLists(grouped_apis, legacy_apis) ==
    Ok((IF grouped_apis.ok THEN grouped_apis.v ELSE <<>>)
       \o (IF legacy_apis.ok THEN legacy_apis.v ELSE <<>>))

\* discover_apis returns
DiscoverApisReturn ==
    /\ disc_pc = "merge"
    /\ disc_result' = MergeApiLists(disc_grouped, disc_legacy)
    /\ disc_pc' = "done"
    /\ UNCHANGED <<disc_groups, disc_i, disc_apis, disc_grouped, disc_versions,
                   disc_legacy, disc_seen>>
    /\ UNCHANGED <<layVars, kcVars, mainVars>>

DiscNext ==
    \/ ListApiGroups
    \/ DiscoverApiGroup
    \/ GroupedDone
    \/ ListLegacyVersions
    \/ ListLegacyResources
    \/ DiscoverApisReturn

-----------------------------------------------------------------------------
(* The kubectl runner: src/src/kubectl.rs *)

MAX_CONCURRENCY == 3

\* the concurrent callers of Kubectl::exec
NumCallers == 4
Callers == 1..NumCallers

KcOff ==
    /\ kc_pc = "off"
    /\ kc_enabled = FALSE
    /\ kc_permits = 0
    /\ kc_queue = <<>>
    /\ kc_call = [c \in Callers |-> "idle"]
    /\ kc_res = [c \in Callers |-> "none"]
    /\ kc_children = {}
    /\ kc_spawned = {}
    /\ kc_took = {}

KcInit ==
    /\ kc_pc = "new"
    /\ kc_enabled = FALSE
    /\ kc_permits = 0
    /\ kc_queue = <<>>
    /\ kc_call = [c \in Callers |-> "idle"]
    /\ kc_res = [c \in Callers |-> "none"]
    /\ kc_children = {}
    /\ kc_spawned = {}
    /\ kc_took = {}

\* Kubectl::try_new: Kubectl::new when `kubectl version` runs and succeeds,
\* Kubectl::disabled otherwise
TryNew ==
    /\ kc_pc = "new"
    /\ \E works \in BOOLEAN : kc_enabled' = works
    /\ kc_permits' = MAX_CONCURRENCY
    /\ kc_pc' = "ready"
    /\ UNCHANGED <<kc_queue, kc_call, kc_res, kc_children, kc_spawned, kc_took>>
    /\ UNCHANGED <<layVars, discVars, mainVars>>

\* Kubectl::exec is called: the early return of a disabled runner, or the
\* caller queues in acquire_owned
ExecEnter(c) ==
    /\ kc_pc = "ready"
    /\ kc_call[c] = "idle"
    /\ IF ~kc_enabled
       THEN /\ kc_call' = [kc_call EXCEPT ![c] = "done"]
            /\ kc_res' = [kc_res EXCEPT ![c] = "OkNone"]
            /\ UNCHANGED kc_queue
       ELSE /\ kc_call' = [kc_call EXCEPT ![c] = "waiting"]
            /\ kc_queue' = Append(kc_queue, c)
            /\ UNCHANGED kc_res
    /\ UNCHANGED <<kc_pc, kc_enabled, kc_permits, kc_children, kc_spawned, kc_took>>
    /\ UNCHANGED <<layVars, discVars, mainVars>>

\* the mutant: a permit is handed out whether or not one is left
CanAcquireAlways(c) == kc_queue # <<>> /\ Head(kc_queue) = c

\* Semaphore::acquire_owned completes: permits go to waiters in queue order
CanAcquire(c) == kc_queue # <<>> /\ Head(kc_queue) = c /\ kc_permits > 0

\* exec: `let _permit = self.sem.clone().acquire_owned().await`
Acquire(c) ==
    /\ kc_call[c] = "waiting"
    /\ CanAcquire(c)
    /\ kc_permits' = kc_permits - 1
    /\ kc_queue' = Tail(kc_queue)
    /\ kc_call' = [kc_call EXCEPT ![c] = "holding"]
    /\ kc_took' = kc_took \cup {c}
    /\ UNCHANGED <<kc_pc, kc_enabled, kc_res, kc_children, kc_spawned>>
    /\ UNCHANGED <<layVars, discVars, mainVars>>

\* exec: `cmd.output().await?`, the spawn: on failure exec returns the error
\* and _permit is dropped
Spawn(c) ==
    /\ kc_call[c] = "holding"
    /\ \E spawned \in BOOLEAN :
         IF spawned
         THEN /\ kc_call' = [kc_call EXCEPT ![c] = "running"]
              /\ kc_children' = kc_children \cup {c}
              /\ kc_spawned' = kc_spawned \cup {c}
              /\ UNCHANGED <<kc_permits, kc_res>>
         ELSE /\ kc_call' = [kc_call EXCEPT ![c] = "done"]
              /\ kc_res' = [kc_res EXCEPT ![c] = "ErrSpawn"]
              /\ kc_permits' = kc_permits + 1
              /\ UNCHANGED <<kc_children, kc_spawned>>
    /\ UNCHANGED <<kc_pc, kc_enabled, kc_queue, kc_took>>
    /\ UNCHANGED <<layVars, discVars, mainVars>>

\* exec: the child exits; the status and UTF-8 checks; exec returns and
\* _permit is dropped
ChildExit(c) ==
    /\ kc_call[c] = "running"
    /\ \E success \in BOOLEAN, utf8 \in BOOLEAN :
         kc_res' = [kc_res EXCEPT ![c] =
                       IF ~success THEN "ErrStatus"
                       ELSE IF ~utf8 THEN "ErrUtf8" ELSE "OkSome"]
    /\ kc_call' = [kc_call EXCEPT ![c] = "done"]
    /\ kc_children' = kc_children \ {c}
    /\ kc_permits' = kc_permits + 1
    /\ UNCHANGED <<kc_pc, kc_enabled, kc_queue, kc_spawned, kc_took>>
    /\ UNCHANGED <<layVars, discVars, mainVars>>

KcNext ==
    \/ TryNew
    \/ \E c \in Callers : ExecEnter(c)
    \/ \E c \in Callers : Acquire(c)
    \/ \E c \in Callers : Spawn(c)
    \/ \E c \in Callers : ChildExit(c)

\* the semaphore is fair and every started command terminates
KcFairness ==
    \A c \in Callers :
        /\ WF_kcVars(Acquire(c))
        /\ WF_kcVars(Spawn(c))
        /\ WF_kcVars(ChildExit(c))

-----------------------------------------------------------------------------
(* The file system: tokio::fs *)

\* the most I/O errors injected into one run
MaxFaults == 1

SlashesOf(path) == {k \in 1..Len(path) : path[k] = "/"}

\* Path::parent
Parent(path) ==
    LET last == CHOOSE k \in SlashesOf(path) : \A l \in SlashesOf(path) : l <= k
    IN SubSeq(path, 1, last - 1)

\* tokio::fs::create_dir_all: the directory and every missing ancestor
CreateDirAll(dirs, d) ==
    dirs \cup {d} \cup {SubSeq(d, 1, k - 1) : k \in SlashesOf(d)}

\* tokio::fs::write succeeds only in an existing directory
CanWrite(path) == Parent(path) \in fs_dirs

\* tokio::fs::write: the file is created or replaced
WriteFile(files, path, content) ==
    [q \in DOMAIN files \cup {path} |-> IF q = path THEN content ELSE files[q]]

Exists(path) == path \in DOMAIN fs_files

\* whether one more I/O error may be injected
MayFault == faults < MaxFaults

SClusterInfo == <<"c", "l", "u", "s", "t", "e", "r", "-", "i", "n", "f", "o", ".", "t", "x", "t">>
SClusterVersion == <<"c", "l", "u", "s", "t", "e", "r", "-", "v", "e", "r", "s", "i", "o", "n", ".", "j", "s", "o", "n">>
SApisJson == <<"a", "p", "i", "s", ".", "j", "s", "o", "n">>

\* Layout::cluster_info, cluster_version, cluster_api_resources
ClusterInfoPath == Join(SRoot, SClusterInfo)
ClusterVersionPath == Join(SRoot, SClusterVersion)
ClusterApiResourcesPath == Join(SRoot, SApisJson)

-----------------------------------------------------------------------------
(* JSON values and objects *)

\* serde_json::Value: an object, a string, or null
JObj(fields) == [obj |-> fields]
JStr(str) == [str |-> str]
JNull == [null |-> TRUE]
IsObj(v) == "obj" \in DOMAIN v
HasKey(v, k) == IsObj(v) /\ k \in DOMAIN v.obj

\* the names lists draw from, and the longest list
MaxObjs == 2
SNs == <<"n">>

\* kube's DynamicObject as a list returns it: `metadata` is a typed field,
\* `data` holds the remaining fields of the object (never "metadata")
DynamicObject(name) ==
    [metadata |-> [name |-> name, namespace |-> Some(SNs),
                   managedFields |-> IF name = <<"a">> THEN Some("entries")
                                     ELSE None],
     data |-> JObj([spec |-> JStr(name)])]

\* the lists a list request may return: the cluster's objects, each once
ObjectLists ==
    {[k \in 1..Len(ns) |-> DynamicObject(ns[k])] :
        ns \in {l \in SeqsUpTo(cluster.names, MaxObjs) :
                   \A x, y \in 1..Len(l) : x # y => l[x] # l[y]}}

\* serde_json::to_string_pretty(&object): the JSON tree of the text. ObjectMeta
\* writes the fields that are set; `data` is flattened beside "metadata"
Serialize(object) ==
    LET m == object.metadata
        meta == [k \in {"name", "namespace"}
                      \cup (IF IsSome(m.managedFields) THEN {"managedFields"} ELSE {})
                    |-> CASE k = "name" -> JStr(m.name)
                          [] k = "namespace" -> JStr(Unwrap(m.namespace))
                          [] k = "managedFields" -> JStr(Unwrap(m.managedFields))]
    IN JObj([k \in {"metadata"} \cup DOMAIN object.data.obj |->
                IF k = "metadata" THEN JObj(meta) ELSE object.data.obj[k]])

-----------------------------------------------------------------------------
(* The generic dumper: src/src/generic.rs *)

\* Value::pointer_mut("/metadata/managedFields") and the assignment of Null
StripManagedFields(object) ==
    IF HasKey(object, "metadata") /\ HasKey(object.obj.metadata, "managedFields")
    THEN JObj([object.obj EXCEPT !.metadata =
                  JObj([object.obj.metadata.obj EXCEPT !.managedFields = JNull])])
    ELSE object

RECURSIVE ApplyStrips(_, _)
\* apply_strips
ApplyStrips(object, strips) ==
    IF strips = <<>> THEN object
    ELSE ApplyStrips(IF Head(strips) = "ManagedFields"
                     THEN StripManagedFields(object) ELSE object,
                     Tail(strips))

\* dump_api_group: what is written for one listed object
Repr(object) ==
    Serialize([object EXCEPT !.data = ApplyStrips(object.data, opts.strip)])

\* dump_api_group: where one listed object is written
ReprPath(api_resource, object) ==
    Representation(ObjectLayout(opts.escape_paths, api_resource,
                                object.metadata.namespace, object.metadata.name))

\* the mutant: dump unwraps dump_api_group's result with `?` when the list
\* request failed
OnDumpApiGroupErrListFatal(kind) == IF kind = "list" THEN "return" ELSE "continue"

\* the mutant: dump returns the error of an object's write
OnDumpApiGroupErrIoFatal(kind) == IF kind = "io" THEN "return" ELSE "continue"

\* dump: `if let Err(err) = dump_api_group(..).await { eprintln!(..) }`: any
\* error of dump_api_group, of the list request ("list") or of an object's
\* serialisation, directory or write ("io"), is logged and the loop goes on
OnDumpApiGroupErr(kind) == "continue"

GenIdle ==
    /\ g_pc = "idle"
    /\ g_i = 0
    /\ g_list = <<>>
    /\ g_j = 0
    /\ g_outcome = <<>>
    /\ g_lists = <<>>
    /\ g_result = "none"

\* generic::dump returns an error to main
DumpFails ==
    /\ g_pc' = "returned"
    /\ g_result' = "Err"

\* dump: the cluster version is fetched and written to cluster-version.json
DumpVersion ==
    /\ m_pc = "generic" /\ g_pc = "version"
    /\ \E fetched \in BOOLEAN, io \in {"ok", "write"} :
        /\ io # "ok" => MayFault
        /\ faults' = IF fetched /\ io # "ok" THEN faults + 1 ELSE faults
        /\ IF fetched /\ io = "ok" /\ CanWrite(ClusterVersionPath)
           THEN /\ fs_files' = WriteFile(fs_files, ClusterVersionPath, "version")
                /\ g_pc' = "apis"
                /\ UNCHANGED g_result
           ELSE /\ DumpFails
                /\ UNCHANGED fs_files
    /\ UNCHANGED <<m_pc, m_result, envVars, typedVars, evVars, fs_dirs, g_i,
                   g_list, g_j,
                   g_outcome, g_lists>>
    /\ UNCHANGED <<layVars, discVars, kcVars>>

\* dump: env.apis is written to apis.json; the loop starts
DumpApis ==
    /\ m_pc = "generic" /\ g_pc = "apis"
    /\ \E io \in {"ok", "write"} :
        /\ io # "ok" => MayFault
        /\ faults' = IF io # "ok" THEN faults + 1 ELSE faults
        /\ IF io = "ok" /\ CanWrite(ClusterApiResourcesPath)
           THEN /\ fs_files' = WriteFile(fs_files, ClusterApiResourcesPath, apis)
                /\ g_pc' = "types"
                /\ g_i' = 1
                /\ UNCHANGED g_result
           ELSE /\ DumpFails
                /\ UNCHANGED <<fs_files, g_i>>
    /\ UNCHANGED <<m_pc, m_result, envVars, typedVars, evVars, fs_dirs,
                   g_list, g_j, g_outcome,
                   g_lists>>
    /\ UNCHANGED <<layVars, discVars, kcVars>>

\* dump's loop after dump_api_group returned an error of the given kind
GroupFailed(kind) ==
    /\ g_outcome' = [g_outcome EXCEPT ![g_i] = kind]
    /\ IF OnDumpApiGroupErr(kind) = "continue"
       THEN /\ g_pc' = "types"
            /\ g_i' = g_i + 1
            /\ UNCHANGED g_result
       ELSE /\ DumpFails
            /\ UNCHANGED g_i

\* dump's loop: an entry that cannot be listed is passed over; for the
\* others dump_api_group issues the list request
DumpApiGroup ==
    /\ m_pc = "generic" /\ g_pc = "types"
    /\ g_i <= Len(apis)
    /\ IF ~apis[g_i].list
       THEN /\ g_outcome' = [g_outcome EXCEPT ![g_i] = "not_listable"]
            /\ g_i' = g_i + 1
            /\ UNCHANGED <<g_pc, g_list, g_j, g_lists, g_result>>
       ELSE \E resp \in {Err} \cup {Ok(l) : l \in ObjectLists} :
              IF resp.ok
              THEN /\ g_list' = resp.v
                   /\ g_lists' = [g_lists EXCEPT ![g_i] = resp.v]
                   /\ g_j' = 1
                   /\ g_pc' = "objects"
                   /\ UNCHANGED <<g_i, g_outcome, g_result>>
              ELSE /\ GroupFailed("list")
                   /\ UNCHANGED <<g_list, g_j, g_lists>>
    /\ UNCHANGED <<m_pc, m_result, envVars, typedVars, evVars, fsVars>>
    /\ UNCHANGED <<layVars, discVars, kcVars>>

\* dump_api_group's loop: one object is stripped, serialised and written
DumpObject ==
    /\ m_pc = "generic" /\ g_pc = "objects"
    /\ g_j <= Len(g_list)
    /\ LET object == g_list[g_j]
           repr_path == ReprPath(apis[g_i].resource, object)
       IN \E io \in {"ok", "serialize", "mkdir", "write"} :
            /\ io # "ok" => MayFault
            /\ faults' = IF io # "ok" THEN faults + 1 ELSE faults
            /\ fs_dirs' = IF io \in {"ok", "write"}
                          THEN CreateDirAll(fs_dirs, Parent(repr_path))
                          ELSE fs_dirs
            /\ IF io = "ok"
               THEN /\ fs_files' = WriteFile(fs_files, repr_path, Repr(object))
                    /\ g_j' = g_j + 1
                    /\ UNCHANGED <<g_pc, g_i, g_outcome, g_result>>
               ELSE /\ GroupFailed("io")
                    /\ UNCHANGED <<fs_files, g_j>>
    /\ UNCHANGED <<m_pc, m_result, envVars, typedVars, evVars, g_list, g_lists>>
    /\ UNCHANGED <<layVars, discVars, kcVars>>

\* dump_api_group returns Ok(())
DumpApiGroupOk ==
    /\ m_pc = "generic" /\ g_pc = "objects"
    /\ g_j > Len(g_list)
    /\ g_outcome' = [g_outcome EXCEPT ![g_i] = "dumped"]
    /\ g_i' = g_i + 1
    /\ g_pc' = "types"
    /\ UNCHANGED <<m_pc, m_result, envVars, typedVars, evVars, fsVars,
                   g_list, g_j, g_lists,
                   g_result>>
    /\ UNCHANGED <<layVars, discVars, kcVars>>

\* dump returns Ok(())
DumpOk ==
    /\ m_pc = "generic" /\ g_pc = "types"
    /\ g_i > Len(apis)
    /\ g_pc' = "returned"
    /\ g_result' = "Ok"
    /\ UNCHANGED <<m_pc, m_result, envVars, typedVars, evVars, fsVars, g_i,
                   g_list, g_j,
                   g_outcome, g_lists>>
    /\ UNCHANGED <<layVars, discVars, kcVars>>

GenericNext ==
    \/ DumpVersion
    \/ DumpApis
    \/ DumpApiGroup
    \/ DumpObject
    \/ DumpApiGroupOk
    \/ DumpOk

-----------------------------------------------------------------------------
(* The typed passes: src/src/main.rs, dump_typed_simple and its dumpers *)

SC == <<"c">>
SD == SC \o SPrev
SK == <<"k">>
SJ == <<"j">>

PodResource == [group |-> <<>>, kind |-> SPod]
ConfigMapResource == [group |-> <<>>, kind |-> SConfigMap]
SecretResource == [group |-> <<>>, kind |-> SSecret]
DeploymentResource == [group |-> SApps, kind |-> SDeployment]
BindingResource == [group |-> <<>>, kind |-> SBinding]

\* ApiResource::erase::<K>(&()) of the pass main is at
ErasedResource ==
    CASE m_pc = "pods" -> PodResource
      [] m_pc = "configmaps" -> ConfigMapResource
      [] m_pc = "secrets" -> SecretResource

\* the typed objects: pod "a" has one container "c", the others two, "c" and
\* "c-prev"; a
\* ConfigMap's and a Secret's maps are in key order, as BTreeMap iterates
TypedObject(name) ==
    [name |-> name,
     namespace |-> Some(SNs),
     containers |-> IF name = <<"a">> THEN <<SC>> ELSE <<SC, SD>>,
     binary_data |-> IF name = <<"a">> THEN <<>> ELSE <<[key |-> SJ, value |-> "bytes"]>>,
     data |-> <<[key |-> SK, value |-> "value"]>>]

TypedLists ==
    {[k \in 1..Len(ns) |-> TypedObject(ns[k])] :
        ns \in {l \in SeqsUpTo(cluster.names, MaxObjs) :
                   \A x, y \in 1..Len(l) : x # y => l[x] # l[y]}}

\* dump_typed_simple: the layout of the object being dumped
TypedLayout(obj) ==
    ObjectLayout(opts.escape_paths, ErasedResource, obj.namespace, obj.name)

TypedIdle ==
    /\ t_pc = "idle"
    /\ t_list = <<>>
    /\ t_j = 0
    /\ t_c = 0
    /\ t_fetches = <<>>

\* main returns "Ok" or the error it was given (named by its context): the
\* process exits, with a non-zero status unless the result is "Ok"
MainExit(result) ==
    /\ m_pc' = "exit"
    /\ m_result' = result

NextPass ==
    CASE m_pc = "pods" -> "configmaps"
      [] m_pc = "configmaps" -> "secrets"
      [] m_pc = "secrets" -> "events"

\* main goes on to the pass after the current typed pass
StartNextPass ==
    /\ m_pc' = NextPass
    /\ t_pc' = IF NextPass = "events" THEN "idle" ELSE "list"
    /\ e_pc' = IF NextPass = "events" THEN "list" ELSE e_pc
    /\ UNCHANGED m_result

\* the mutant: a failed list request is logged and the pass is skipped
OnTypedListErrSkip == "skip"

\* dump_typed_simple: `.context("failed to list pods")?`, and main's `?`
OnTypedListErr == "return"

\* dump_typed_simple: the list request
TypedList ==
    /\ m_pc \in {"pods", "configmaps", "secrets"} /\ t_pc = "list"
    /\ \E resp \in {Err} \cup {Ok(l) : l \in TypedLists} :
         IF resp.ok
         THEN /\ t_list' = resp.v
              /\ t_j' = 1
              /\ t_c' = 1
              /\ t_pc' = "objects"
              /\ UNCHANGED <<m_pc, m_result, e_pc>>
         ELSE /\ IF OnTypedListErr = "return"
                 THEN /\ MainExit("failed to list pods")
                      /\ t_pc' = "idle"
                      /\ UNCHANGED e_pc
                 ELSE StartNextPass
              /\ UNCHANGED <<t_list, t_j, t_c>>
    /\ UNCHANGED t_fetches
    /\ UNCHANGED <<envVars, fsVars, genVars, e_events, e_mapping, e_keys, e_k,
                   e_skipped, e_result>>
    /\ UNCHANGED <<layVars, discVars, kcVars>>

\* a variant: a fetch that fails is returned with `?`
OnLogFetchErrReturn == "return"

\* dump_pod: `namespaced_pods_api.logs(..).await.ok()`, a fetch that fails
\* gives None
OnLogFetchErr == "absent"

\* dump_pod, one container: the current log, then the previous log; a log
\* that was fetched is written, and a write that fails ends the run
DumpPodContainer ==
    /\ m_pc = "pods" /\ t_pc = "objects"
    /\ t_j <= Len(t_list)
    /\ t_c <= Len(t_list[t_j].containers)
    /\ LET pod == t_list[t_j]
           container == pod.containers[t_c]
           cur_path == Logs(TypedLayout(pod), "Current", container)
           prev_path == Logs(TypedLayout(pod), "Previous", container)
           Fetch(kind, logs) == [pod |-> pod.name, container |-> container,
                                 kind |-> kind, got |-> IsSome(logs)]
       IN \E current_logs \in {None, Some("current")},
             prev_logs \in {None, Some("previous")},
             io1 \in {"ok", "write"}, io2 \in {"ok", "write"} :
            LET ok1 == io1 = "ok" /\ CanWrite(cur_path)
                failed1 == IsSome(current_logs) /\ ~ok1
                stop1 == failed1
                         \/ (current_logs = None /\ OnLogFetchErr = "return")
                files1 == IF IsSome(current_logs) /\ ok1
                          THEN WriteFile(fs_files, cur_path, Unwrap(current_logs))
                          ELSE fs_files
                ok2 == io2 = "ok" /\ CanWrite(prev_path)
                failed2 == ~stop1 /\ IsSome(prev_logs) /\ ~ok2
                stop2 == failed2
                         \/ (~stop1 /\ prev_logs = None /\ OnLogFetchErr = "return")
                injected == (IF io1 # "ok" THEN 1 ELSE 0)
                            + (IF io2 # "ok" THEN 1 ELSE 0)
            IN /\ io1 # "ok" => IsSome(current_logs)
               /\ io2 # "ok" => (IsSome(prev_logs) /\ ~stop1)
               /\ stop1 => prev_logs = None
               /\ faults + injected <= MaxFaults
               /\ faults' = faults + injected
               /\ t_fetches' = t_fetches \o <<Fetch("Current", current_logs)>>
                                 \o (IF stop1 THEN <<>>
                                     ELSE <<Fetch("Previous", prev_logs)>>)
               /\ fs_files' = IF ~stop1 /\ IsSome(prev_logs) /\ ok2
                              THEN WriteFile(files1, prev_path, Unwrap(prev_logs))
                              ELSE files1
               /\ IF stop1 \/ stop2
                  THEN /\ MainExit("failed to dump object")
                       /\ t_pc' = "idle"
                       /\ UNCHANGED t_c
                  ELSE /\ t_c' = t_c + 1
                       /\ UNCHANGED <<m_pc, m_result, t_pc>>
    /\ UNCHANGED <<envVars, fs_dirs, genVars, t_list, t_j, evVars>>
    /\ UNCHANGED <<layVars, discVars, kcVars>>

\* dump_pod returns Ok(()): dump_typed_simple's loop goes to the next pod
DumpPodOk ==
    /\ m_pc = "pods" /\ t_pc = "objects"
    /\ t_j <= Len(t_list)
    /\ t_c > Len(t_list[t_j].containers)
    /\ t_j' = t_j + 1
    /\ t_c' = 1
    /\ UNCHANGED <<m_pc, m_result, envVars, fsVars, genVars, t_pc, t_list,
                   t_fetches, evVars>>
    /\ UNCHANGED <<layVars, discVars, kcVars>>

RECURSIVE WriteAll(_, _, _)
\* the files after writing the first n of the pieces, in order
WriteAll(files, pieces, n) ==
    IF n = 0 THEN files
    ELSE WriteFile(WriteAll(files, pieces, n - 1), pieces[n].path, pieces[n].value)

\* dump_config_map and dump_secret: the data pieces of one object are
\* written in order (binary_data, then data); the first write that fails
\* ends the run
DumpDataPieces ==
    /\ m_pc \in {"configmaps", "secrets"} /\ t_pc = "objects"
    /\ t_j <= Len(t_list)
    /\ LET obj == t_list[t_j]
           maps == IF m_pc = "configmaps" THEN obj.binary_data \o obj.data
                   ELSE obj.data
           pieces == [k \in 1..Len(maps) |->
                        [path |-> DataPiece(TypedLayout(obj), maps[k].key),
                         value |-> maps[k].value]]
       IN \E fail_at \in 0..Len(pieces) :
            LET natural == {k \in 1..Len(pieces) : ~CanWrite(pieces[k].path)}
                injected == fail_at # 0 /\ \A k \in natural : fail_at < k
                stop == IF injected THEN fail_at
                        ELSE IF natural # {}
                             THEN CHOOSE k \in natural : \A l \in natural : k <= l
                             ELSE 0
            IN /\ fail_at # 0 => (MayFault /\ injected)
               /\ faults' = IF injected THEN faults + 1 ELSE faults
               /\ fs_files' = WriteAll(fs_files, pieces,
                                       IF stop = 0 THEN Len(pieces) ELSE stop - 1)
               /\ IF stop # 0
                  THEN /\ MainExit("failed to dump object")
                       /\ t_pc' = "idle"
                       /\ UNCHANGED t_j
                  ELSE /\ t_j' = t_j + 1
                       /\ UNCHANGED <<m_pc, m_result, t_pc>>
    /\ UNCHANGED <<envVars, fs_dirs, genVars, t_list, t_c, t_fetches, evVars>>
    /\ UNCHANGED <<layVars, discVars, kcVars>>

\* dump_typed_simple returns Ok(()): main starts the next pass
TypedOk ==
    /\ m_pc \in {"pods", "configmaps", "secrets"} /\ t_pc = "objects"
    /\ t_j > Len(t_list)
    /\ StartNextPass
    /\ UNCHANGED <<envVars, fsVars, genVars, t_list, t_j, t_c, t_fetches, e_events,
                   e_mapping, e_keys, e_k, e_skipped, e_result>>
    /\ UNCHANGED <<layVars, discVars, kcVars>>

TypedNext ==
    \/ TypedList
    \/ DumpPodContainer
    \/ DumpPodOk
    \/ DumpDataPieces
    \/ TypedOk

-----------------------------------------------------------------------------
(* The event pass: src/src/main.rs, dump_events *)

\* the longest event list
MaxEvents == 4

SV1 == <<"v", "1">>
SNewline == <<"\n">>

\* the characters of the model's strings, in code point order
Ascii == <<"\n", "-", ".", "/", "1", ":", "C", "D", "M", "P", "S", "_",
           "a", "b", "c", "d", "e", "f", "g", "i", "j", "k", "l", "m", "n",
           "o", "p", "r", "s", "t", "v", "y", "~">>
Rank(c) == CHOOSE k \in 1..Len(Ascii) : Ascii[k] = c

RECURSIVE StrLess(_, _)
\* Ord for String
StrLess(a, b) ==
    IF a = <<>> THEN b # <<>>
    ELSE IF b = <<>> THEN FALSE
    ELSE IF Head(a) = Head(b) THEN StrLess(Tail(a), Tail(b))
    ELSE Rank(Head(a)) < Rank(Head(b))

\* Ord for Option<String>: None is least
OptLess(a, b) ==
    IF a = None THEN b # None
    ELSE IF b = None THEN FALSE
    ELSE StrLess(Unwrap(a), Unwrap(b))

\* #[derive(Ord)] for InvolvedObject: the fields in declaration order
KeyLess(x, y) ==
    \/ OptLess(x.group, y.group)
    \/ /\ x.group = y.group
       /\ \/ StrLess(x.kind, y.kind)
          \/ /\ x.kind = y.kind
             /\ \/ OptLess(x.namespace, y.namespace)
                \/ /\ x.namespace = y.namespace
                   /\ StrLess(x.name, y.name)

RECURSIVE SortKeys(_)
\* the keys of a BTreeMap in iteration order
SortKeys(S) ==
    IF S = {} THEN <<>>
    ELSE LET least == CHOOSE x \in S : \A y \in S \ {x} : KeyLess(x, y)
         IN <<least>> \o SortKeys(S \ {least})

RECURSIVE JoinWith(_, _)
\* [String]::join(sep)
JoinWith(strs, sep) ==
    IF strs = <<>> THEN <<>>
    ELSE IF Len(strs) = 1 THEN strs[1]
    ELSE strs[1] \o sep \o JoinWith(Tail(strs), sep)

\* an Event: its involved_object reference and its message
Event(api_version, kind, name, message) ==
    [involved_object |-> [api_version |-> api_version, kind |-> kind,
                          namespace |-> Some(SNs), name |-> name],
     message |-> message]

\* the events the cluster may hold: two about pod "a" (one without an
\* apiVersion), one about deployment "a" without a message, one without a
\* name and one without a kind
EventPool ==
    {Event(Some(SV1), Some(SPod), Some(<<"a">>), Some(<<"m", "1">>)),
     Event(None, Some(SPod), Some(<<"a">>), Some(<<"m", "2">>)),
     Event(Some(SApps \o Slash \o SV1), Some(SDeployment), Some(<<"a">>), None),
     Event(Some(SV1), Some(SPod), None, Some(<<"m", "4">>)),
     Event(Some(SV1), None, Some(<<"a">>), Some(<<"m", "5">>))}

EventLists ==
    {l \in SeqsUpTo(cluster.events, MaxEvents) :
        \A x, y \in 1..Len(l) : x # y => l[x] # l[y]}

\* InvolvedObject::from_event
FromEvent(ev) ==
    LET io == ev.involved_object
        api_version == IF IsSome(io.api_version) THEN Unwrap(io.api_version)
                       ELSE SV1
        \* rsplitn(2, '/').nth(1): what precedes the last '/', if there is one
        group == IF SlashesOf(api_version) = {} THEN None
                 ELSE Some(Parent(api_version))
    IN IF io.name = None \/ io.kind = None THEN None
       ELSE Some([group |-> group, kind |-> Unwrap(io.kind),
                  namespace |-> io.namespace, name |-> Unwrap(io.name)])

\* event_to_string
EventToString(ev) == IF IsSome(ev.message) THEN Unwrap(ev.message) ELSE <<>>

\* dump_events: the first loop, `mapping.entry(obj).or_insert_with(Vec::new)
\* .push(event)` for every event that has an InvolvedObject
BuildMapping(events) ==
    LET keyed == SelectSeq(events, LAMBDA ev : IsSome(FromEvent(ev)))
        keys == {Unwrap(FromEvent(keyed[k])) : k \in 1..Len(keyed)}
    IN [key \in keys |->
          SelectSeq(keyed, LAMBDA ev : Unwrap(FromEvent(ev)) = key)]

\* the mutant: the messages are joined last event first
GroupLogReversed(events) ==
    JoinWith([k \in 1..Len(events) |-> EventToString(events[Len(events) + 1 - k])],
             SNewline)

\* dump_events: `log`, the text of one group
GroupLog(events) ==
    JoinWith([k \in 1..Len(events) |-> EventToString(events[k])], SNewline)

\* dump_events: the layout of the object a group is about
InvolvedLayout(object) ==
    ObjectLayout(opts.escape_paths,
                 [kind |-> object.kind,
                  group |-> IF IsSome(object.group) THEN Unwrap(object.group)
                            ELSE <<>>],
                 object.namespace, object.name)

EvIdle ==
    /\ e_pc = "idle"
    /\ e_events = <<>>
    /\ e_mapping = <<>>
    /\ e_keys = <<>>
    /\ e_k = 0
    /\ e_skipped = {}
    /\ e_result = "none"

\* dump_events returns an error, and main returns it
EventsFail(err) ==
    /\ e_pc' = "returned"
    /\ e_result' = "Err"
    /\ MainExit(err)

\* dump_events: the list request and the grouping of the events
EventsList ==
    /\ m_pc = "events" /\ e_pc = "list"
    /\ \E resp \in {Err} \cup {Ok(l) : l \in EventLists} :
         IF resp.ok
         THEN /\ e_events' = resp.v
              /\ e_mapping' = BuildMapping(resp.v)
              /\ e_keys' = SortKeys(DOMAIN BuildMapping(resp.v))
              /\ e_k' = 1
              /\ e_pc' = "groups"
              /\ UNCHANGED <<m_pc, m_result, e_result>>
         ELSE /\ EventsFail("failed to list events")
              /\ UNCHANGED <<e_events, e_mapping, e_keys, e_k>>
    /\ UNCHANGED <<envVars, fsVars, genVars, typedVars, e_skipped>>
    /\ UNCHANGED <<layVars, discVars, kcVars>>

\* dump_events: one turn of the loop over `mapping`
EventsGroup ==
    /\ m_pc = "events" /\ e_pc = "groups"
    /\ e_k <= Len(e_keys)
    /\ LET object == e_keys[e_k]
           layout == InvolvedLayout(object)
           exists == Exists(Representation(layout))
           path == EventLog(layout)
       IN \E io \in {"ok", "write"} :
            /\ io # "ok" => (MayFault /\ exists)
            /\ faults' = IF io # "ok" THEN faults + 1 ELSE faults
            /\ IF ~exists
               THEN /\ e_skipped' = e_skipped \cup {object}
                    /\ e_k' = e_k + 1
                    /\ UNCHANGED <<fs_files, m_pc, m_result, e_pc, e_result>>
               ELSE IF io = "ok" /\ CanWrite(path)
               THEN /\ fs_files' = WriteFile(fs_files, path,
                                             GroupLog(e_mapping[object]))
                    /\ e_k' = e_k + 1
                    /\ UNCHANGED <<m_pc, m_result, e_pc, e_skipped, e_result>>
               ELSE /\ EventsFail("failed to write events")
                    /\ UNCHANGED <<fs_files, e_k, e_skipped>>
    /\ UNCHANGED <<envVars, fs_dirs, genVars, typedVars, e_events, e_mapping,
                   e_keys>>
    /\ UNCHANGED <<layVars, discVars, kcVars>>

\* dump_events returns Ok(()), and so does main
EventsOk ==
    /\ m_pc = "events" /\ e_pc = "groups"
    /\ e_k > Len(e_keys)
    /\ e_pc' = "returned"
    /\ e_result' = "Ok"
    /\ MainExit("Ok")
    /\ UNCHANGED <<envVars, fsVars, genVars, typedVars, e_events, e_mapping,
                   e_keys, e_k, e_skipped>>
    /\ UNCHANGED <<layVars, discVars, kcVars>>

EventsNext ==
    \/ EventsList
    \/ EventsGroup
    \/ EventsOk

-----------------------------------------------------------------------------
(* main: src/src/main.rs *)

\* the catalogs discovery may give main: up to MaxTypes of these entries
MaxTypes == 2
ApiPool ==
    {[resource |-> PodResource, list |-> TRUE],
     [resource |-> DeploymentResource, list |-> TRUE],
     [resource |-> BindingResource, list |-> FALSE]}
Catalogs ==
    {l \in SeqsUpTo(ApiPool, MaxTypes) :
        \A x, y \in 1..Len(l) : x # y => l[x] # l[y]}

\* a catalog with a listable type of the core group, one of a named group
\* and a type that cannot be listed
MainCatalog ==
    <<[resource |-> DeploymentResource, list |-> TRUE],
      [resource |-> BindingResource, list |-> FALSE],
      [resource |-> PodResource, list |-> TRUE]>>

\* a catalog with the Pod type alone
PodCatalog == <<[resource |-> PodResource, list |-> TRUE]>>

MainOff ==
    /\ m_pc = "off"
    /\ m_result = "none"
    /\ opts = <<>>
    /\ apis = <<>>
    /\ cluster = <<>>
    /\ fs_dirs = {}
    /\ fs_files = <<>>
    /\ faults = 0
    /\ GenIdle /\ TypedIdle /\ EvIdle

\* main starts: the options, what the cluster may hold, and whether the
\* output directory exists
MainInit(Names, Events, Apis) ==
    /\ m_pc = "connect"
    /\ m_result = "none"
    /\ opts \in [strip : {<<>>, <<"ManagedFields">>}, escape_paths : BOOLEAN]
    /\ apis = <<>>
    /\ cluster = [names |-> Names, events |-> Events, catalogs |-> Apis]
    /\ fs_dirs \in {{}, {SRoot}}
    /\ fs_files = <<>>
    /\ faults = 0
    /\ GenIdle /\ TypedIdle /\ EvIdle

\* main: the client, the server version and discover_apis, each with `?`
MainConnect ==
    /\ m_pc = "connect"
    /\ \/ /\ \E err \in {"connection failed", "failed to get kubernetes verion",
                         "discovery error"} : MainExit(err)
          /\ UNCHANGED <<apis, g_outcome, g_lists>>
       \/ \E catalog \in cluster.catalogs :
            /\ apis' = catalog
            /\ g_outcome' = [k \in 1..Len(catalog) |-> "pending"]
            /\ g_lists' = [k \in 1..Len(catalog) |-> <<>>]
            /\ m_pc' = "cluster_info"
            /\ UNCHANGED m_result
    /\ UNCHANGED <<opts, cluster, fsVars, g_pc, g_i, g_list, g_j, g_result,
                   typedVars, evVars>>
    /\ UNCHANGED <<layVars, discVars, kcVars>>

\* main: Kubectl::try_new, exec(["cluster-info"]) with `?`, and the write of
\* cluster-info.txt with `?`; then generic::dump is called
MainClusterInfo ==
    /\ m_pc = "cluster_info"
    /\ \E exec \in {"OkNone", "OkSome", "Err"}, io \in {"ok", "write"} :
        /\ io # "ok" => (MayFault /\ exec = "OkSome")
        /\ faults' = IF io # "ok" THEN faults + 1 ELSE faults
        /\ IF exec = "OkNone"
           THEN /\ m_pc' = "generic" /\ g_pc' = "version"
                /\ UNCHANGED <<m_result, fs_files>>
           ELSE IF exec = "OkSome" /\ io = "ok" /\ CanWrite(ClusterInfoPath)
           THEN /\ fs_files' = WriteFile(fs_files, ClusterInfoPath, "cluster-info")
                /\ m_pc' = "generic" /\ g_pc' = "version"
                /\ UNCHANGED m_result
           ELSE /\ MainExit("cluster-info failed")
                /\ UNCHANGED <<fs_files, g_pc>>
    /\ UNCHANGED <<envVars, fs_dirs, g_i, g_list, g_j, g_outcome, g_lists,
                   g_result, typedVars, evVars>>
    /\ UNCHANGED <<layVars, discVars, kcVars>>

\* main: `generic::dump(&env).await?`, then the Pod pass
MainAfterGeneric ==
    /\ m_pc = "generic" /\ g_pc = "returned"
    /\ IF g_result = "Err"
       THEN /\ MainExit("generic dump failed")
            /\ UNCHANGED t_pc
       ELSE /\ m_pc' = "pods"
            /\ t_pc' = "list"
            /\ UNCHANGED m_result
    /\ UNCHANGED <<envVars, fsVars, genVars, t_list, t_j, t_c, t_fetches, evVars>>
    /\ UNCHANGED <<layVars, discVars, kcVars>>

MainNext ==
    \/ MainConnect
    \/ MainClusterInfo
    \/ GenericNext
    \/ MainAfterGeneric
    \/ TypedNext
    \/ EventsNext

-----------------------------------------------------------------------------
(* Specifications *)

vars == <<layVars, discVars, kcVars, mainVars>>

\* maybe_escape_name on two names of one resource and namespace
InitEscape == LayInit(EscapeTargets) /\ DiscOff /\ KcOff /\ MainOff
SpecEscape == InitEscape /\ [][ComputePaths]_vars

\* the writers' paths for two write targets
InitLayout == LayInit(LayTargets) /\ DiscOff /\ KcOff /\ MainOff
SpecLayout == InitLayout /\ [][ComputePaths]_vars

\* discover::discover_apis against every combination of responses
InitDiscover == DiscInit /\ LayOff /\ KcOff /\ MainOff
SpecDiscover == InitDiscover /\ [][DiscNext]_vars

\* concurrent callers of Kubectl::exec on one runner
InitKubectl == KcInit /\ LayOff /\ DiscOff /\ MainOff
SpecKubectl == InitKubectl /\ [][KcNext]_vars /\ KcFairness

\* one run of main, from the connection to the exit
Init ==
    /\ MainInit({<<"a">>}, EventPool, {MainCatalog})
    /\ LayOff /\ DiscOff /\ KcOff
Next == MainNext
Spec == Init /\ [][Next]_vars

\* main up to the return of generic::dump, for every catalog
InitGeneric ==
    /\ MainInit({<<"a">>, <<"b">>}, {}, Catalogs)
    /\ LayOff /\ DiscOff /\ KcOff
NextGeneric ==
    \/ MainConnect
    \/ MainClusterInfo
    \/ GenericNext
    \/ MainAfterGeneric
SpecGeneric == InitGeneric /\ [][NextGeneric]_vars

\* main up to the event pass, with pods of one and of two containers
InitPasses ==
    /\ MainInit({<<"a">>, <<"b">>}, {}, {PodCatalog})
    /\ LayOff /\ DiscOff /\ KcOff
NextPasses ==
    \/ MainConnect
    \/ MainClusterInfo
    \/ GenericNext
    \/ MainAfterGeneric
    \/ TypedNext
SpecPasses == InitPasses /\ [][NextPasses]_vars

-----------------------------------------------------------------------------
(* Claims *)

\* C5 (as claimed): any two distinct write targets - distinct object
\* identities, or two distinct artifacts of one object - get distinct paths.
C5_DisjointPaths ==
    (lay_pc = "done" /\ lay_t1 # lay_t2) => lay_p1 # lay_p2

\* C6: with escaping enabled, two distinct names of one resource and
\* namespace get distinct escaped leaf segments, hence distinct paths.
C6_EscapeInjective ==
    (lay_pc = "done" /\ lay_escape /\ lay_t1.name # lay_t2.name)
        => /\ MaybeEscapeName(lay_escape, lay_t1.name)
                # MaybeEscapeName(lay_escape, lay_t2.name)
           /\ lay_p1 # lay_p2

\* C6's case: a name with a raw ':' beside the name that spells its escape
C6_Witness ==
    /\ lay_pc = "done"
    /\ lay_escape
    /\ lay_t1.name = Colon
    /\ lay_t2.name = SColon
    /\ lay_p1 # lay_p2

-----------------------------------------------------------------------------
(* Discovery claims *)

Asked(req) == \E k \in 1..Len(disc_seen) : disc_seen[k].req = req
RespTo(req) ==
    disc_seen[CHOOSE k \in 1..Len(disc_seen) : disc_seen[k].req = req].resp
Answered(req) == Asked(req) /\ RespTo(req).ok
Refused(req) == Asked(req) /\ ~RespTo(req).ok

\* what a resource list declares that is listable and no subresource
Declared(list) ==
    LET rs == list.resources
        listable(r) == /\ \A c \in 1..Len(r.name) : r.name[c] # "/"
                       /\ "list" \in {r.verbs[v] : v \in 1..Len(r.verbs)}
    IN Flatten([k \in 1..Len(rs) |->
                  IF listable(rs[k])
                  THEN <<[api_group |-> list.group_version,
                          kind |-> rs[k].kind, plural |-> rs[k].name]>>
                  ELSE <<>>])

\* what the groups that enumerated declare, in group-list order
DeclaredByGroups ==
    Flatten([i \in 1..Len(disc_groups) |->
               IF Answered(<<"group", i>>)
               THEN Declared(RespTo(<<"group", i>>).v)
               ELSE <<>>])

\* what the legacy group declares, when its enumeration succeeded
DeclaredByLegacy ==
    IF Answered(<<"legacy", 0>>) THEN Declared(RespTo(<<"legacy", 0>>).v)
    ELSE <<>>

GroupedReturned == disc_pc \in {"legacy_versions", "legacy_resources", "merge", "done"}
V1Absent ==
    /\ Answered(<<"versions", 0>>)
    /\ \A k \in 1..Len(RespTo(<<"versions", 0>>).v) :
          RespTo(<<"versions", 0>>).v[k] # "v1"
NoBaseline ==
    Refused(<<"groups", 0>>) \/ Refused(<<"versions", 0>>) \/ V1Absent

\* C7 (as claimed): discover_apis returns an error exactly when the group
\* list fails, the legacy version list fails, or "v1" is not a legacy version.
C7_FatalWithoutBaseline ==
    disc_pc = "done" => (disc_result.ok <=> ~NoBaseline)

\* C7 (amended): discover_apis never returns an error; the catalog is what
\* the groups that enumerated declare, followed by what the legacy group
\* declares, each empty when its half of discovery failed.
C7_NeverFatal ==
    disc_pc = "done" =>
        /\ disc_result.ok
        /\ disc_result.v = DeclaredByGroups \o DeclaredByLegacy
        /\ Refused(<<"groups", 0>>) => disc_result.v = DeclaredByLegacy
        /\ (Refused(<<"versions", 0>>) \/ V1Absent) =>
              disc_result.v = DeclaredByGroups

\* C7's case: neither baseline request succeeded and discover_apis returned
C7_Witness ==
    /\ disc_pc = "done"
    /\ Refused(<<"groups", 0>>)
    /\ Refused(<<"versions", 0>>)
    /\ disc_result = Ok(<<>>)

\* C8: once the group list is fetched, discover_grouped_apis returns Ok with
\* exactly the listable non-subresource entries of every group that
\* enumerated, in group-list order, whichever groups failed to enumerate.
C8_PartialDiscovery ==
    (GroupedReturned /\ Answered(<<"groups", 0>>)) =>
        disc_grouped = Ok(DeclaredByGroups)

\* C8's case: a group's resource list fails and a later group contributes
\* an entry
C8_Witness ==
    /\ GroupedReturned
    /\ \E i, k \in 1..Len(disc_groups) :
          /\ Refused(<<"group", i>>)
          /\ i < k
          /\ Answered(<<"group", k>>)
          /\ Declared(RespTo(<<"group", k>>).v) # <<>>
    /\ disc_grouped.ok
    /\ disc_grouped.v # <<>>

-----------------------------------------------------------------------------
(* Runner claims *)

Holders == {c \in Callers : kc_call[c] \in {"holding", "running"}}

KcBounded ==
    /\ Cardinality(kc_children) <= MAX_CONCURRENCY
    /\ kc_children \subseteq Holders
    /\ kc_pc = "ready" => kc_permits + Cardinality(Holders) = MAX_CONCURRENCY
    /\ \A c \in Callers : kc_call[c] = "waiting" =>
          \E k \in 1..Len(kc_queue) : kc_queue[k] = c

KcDisabledIsNoOp ==
    (kc_pc = "ready" /\ ~kc_enabled) =>
        /\ kc_spawned = {} /\ kc_took = {} /\ kc_children = {}
        /\ kc_permits = MAX_CONCURRENCY
        /\ \A c \in Callers : kc_call[c] \in {"idle", "done"}
        /\ \A c \in Callers : kc_call[c] = "done" => kc_res[c] = "OkNone"

\* C9: at most MAX_CONCURRENCY kubectl children run at any moment; a permit
\* is held exactly by the calls between acquire and return, whatever they
\* return; a disabled runner returns Ok(None) without a process or a permit;
\* and every waiting caller gets its permit, and every call returns.
C9_BoundedAndLive ==
    /\ [](KcBounded /\ KcDisabledIsNoOp)
    /\ \A c \in Callers :
          /\ (kc_call[c] = "waiting") ~> (kc_call[c] = "holding")
          /\ (kc_call[c] = "waiting") ~> (kc_call[c] = "done")

\* C9's case: three children run and a fourth caller waits for a permit
C9_Witness ==
    /\ kc_enabled
    /\ Cardinality(kc_children) = MAX_CONCURRENCY
    /\ kc_permits = 0
    /\ \E c \in Callers : kc_call[c] = "waiting"


-----------------------------------------------------------------------------
(* Claims about the generic dumper *)

Types == 1..Len(g_outcome)
ListedObjects(k) == {g_lists[k][j] : j \in 1..Len(g_lists[k])}
RawOf(k, object) == ReprPath(apis[k].resource, object)

\* C1: in generic::dump, once the preamble is written, whichever list
\* requests fail: each failing type is passed over and the loop goes on to the
\* next entry, every listable entry of the catalog is handed to
\* dump_api_group, every object of every type that was listed and written
\* without error has its raw.json, and dump returns Ok
C1_ListFailureIsolated ==
    /\ (g_pc = "returned" /\ g_i >= 1) => g_result = "Ok"
    /\ g_result = "Ok" =>
         \A k \in Types : apis[k].list => g_outcome[k] \in {"list", "io", "dumped"}
    /\ \A k \in Types :
         /\ g_outcome[k] = "list" => (g_i > k /\ g_result # "Err")
         /\ g_outcome[k] = "dumped" =>
              \A object \in ListedObjects(k) : Exists(RawOf(k, object))

\* a list request failed, and a later type was listed and written
C1_Witness ==
    /\ g_result = "Ok"
    /\ \E k, n \in Types :
         /\ k < n
         /\ g_outcome[k] = "list"
         /\ g_outcome[n] = "dumped"
         /\ ListedObjects(n) # {}

\* C2, as the specification states it: an object-level I/O error in
\* dump_api_group makes generic::dump return an error, so that main exits
\* and no later type or pass runs
C2_IoErrorFatal ==
    \A k \in Types :
        g_outcome[k] = "io" =>
            /\ g_pc = "returned"
            /\ g_result = "Err"
            /\ m_pc \in {"generic", "exit"}

\* C2, as the code behaves: an object-level I/O error ends only the loop over
\* the objects of that type; dump goes on to the next entry of the catalog,
\* returns Ok when the catalog is exhausted, and main goes on to the Pod pass
C2_IoErrorIsolated ==
    \A k \in Types :
        g_outcome[k] = "io" =>
            /\ g_i > k
            /\ g_result # "Err"
            /\ g_pc = "returned" => \A n \in Types : g_outcome[n] # "pending"
            /\ m_pc \in {"generic", "pods"}
            /\ m_result = "none"

\* an object's write failed, a later type was written, and main is at the
\* Pod pass
C2_Witness ==
    /\ m_pc = "pods"
    /\ \E k, n \in Types :
         /\ k < n
         /\ g_outcome[k] = "io"
         /\ g_outcome[n] = "dumped"
         /\ ListedObjects(n) # {}

\* C3: for every object the generic dumper has written: when the strip set
\* holds managed-fields and the listed object has managedFields, the
\* raw.json has metadata.managedFields present with value null; when the
\* strip set is empty, the raw.json is the listed object unchanged
C3_StripApplied ==
    \A k \in 1..Len(g_lists) :
        \A object \in ListedObjects(k) :
            Exists(RawOf(k, object)) =>
                LET written == fs_files[RawOf(k, object)]
                IN /\ (opts.strip # <<>> /\ IsSome(object.metadata.managedFields)) =>
                         /\ HasKey(written, "metadata")
                         /\ HasKey(written.obj.metadata, "managedFields")
                         /\ written.obj.metadata.obj.managedFields = JNull
                   /\ opts.strip = <<>> => written = Serialize(object)

-----------------------------------------------------------------------------
(* Claims about the passes of main *)

Keyed(ev) == ev.involved_object.name # None /\ ev.involved_object.kind # None
EventKeys ==
    {Unwrap(FromEvent(e_events[k])) : k \in {n \in 1..Len(e_events) : Keyed(e_events[n])}}
MessagesOf(key) ==
    LET about == SelectSeq(e_events,
                           LAMBDA ev : Keyed(ev) /\ Unwrap(FromEvent(ev)) = key)
    IN [k \in 1..Len(about) |->
          IF about[k].message = None THEN <<>> ELSE Unwrap(about[k].message)]
RawOfKey(key) == Representation(InvolvedLayout(key))
LogOfKey(key) == EventLog(InvolvedLayout(key))
IsEventLog(path) == SlashesOf(path) # {} /\ path = Join(Parent(path), SEventsTxt)

\* C4: in dump_events, for every group of events with one InvolvedObject
\* key: without the object's raw.json on disk no events.txt is written and
\* the pass goes on (a missing raw.json never ends it); with the raw.json,
\* events.txt is written beside it and holds the messages of the group's
\* events joined by newline in the order the list returned them; events
\* without a name or a kind have no key, and every events.txt belongs to a
\* group
C4_EventLogs ==
    /\ \A k \in 1..Len(e_events) :
         ~Keyed(e_events[k]) => FromEvent(e_events[k]) = None
    /\ \A key \in EventKeys :
         LET raw == RawOfKey(key)
             log == LogOfKey(key)
         IN /\ ~Exists(raw) => ~Exists(log)
            /\ Exists(log) =>
                 /\ fs_files[log] = JoinWith(MessagesOf(key), SNewline)
                 /\ Parent(log) = Parent(raw)
            /\ (e_result = "Ok" /\ Exists(raw)) => Exists(log)
    /\ \A path \in DOMAIN fs_files :
         IsEventLog(path) => \E key \in EventKeys : path = LogOfKey(key)
    /\ (e_result = "Err" /\ e_k >= 1) => Exists(RawOfKey(e_keys[e_k]))

\* the pass returned Ok after writing the events.txt of a group of two
\* events, skipping a group whose object was not dumped, and dropping an
\* event that has no key
C4_Witness ==
    /\ e_result = "Ok"
    /\ \E key \in EventKeys : Len(MessagesOf(key)) = 2 /\ Exists(LogOfKey(key))
    /\ \E key \in EventKeys : ~Exists(RawOfKey(key))
    /\ \E k \in 1..Len(e_events) : ~Keyed(e_events[k])

ListFails == t_pc = "list" /\ t_pc' # "objects"
EventListFails == e_pc = "list" /\ e_pc' # "groups"

\* C10, as the specification states it: when the list request of a typed
\* pass or of the event pass fails, the pass is skipped, the remaining passes
\* run and main does not return the error
C10_ListFailureDegraded ==
    [][/\ ListFails => (m_pc' = NextPass /\ m_result' = "none")
       /\ EventListFails => (m_pc' = "exit" /\ m_result' = "Ok")]_vars

\* C10, as the code behaves: when the list request of a typed pass or of the
\* event pass fails, main returns the error at once: no object of that pass
\* is dumped, no later pass starts, and the exit status is non-zero
C10_ListFailureFatal ==
    [][/\ ListFails =>
            /\ m_pc' = "exit" /\ m_result' = "failed to list pods"
            /\ t_pc' = "idle" /\ e_pc' = "idle"
            /\ fs_files' = fs_files
       /\ EventListFails =>
            /\ m_pc' = "exit" /\ m_result' = "failed to list events"
            /\ fs_files' = fs_files]_vars

\* main returned the error of a typed pass's list request after the generic
\* dumper had written an object; the event pass never started
C10_Witness ==
    /\ m_pc = "exit"
    /\ m_result = "failed to list pods"
    /\ e_pc = "idle"
    /\ \E k \in Types : g_outcome[k] = "dumped" /\ ListedObjects(k) # {}

\* C11: every writer creates the parent directory of a file before writing
\* it, so no write fails for a missing directory: the output directory is
\* there when the cluster-level files are written, and a typed pass or the
\* event pass fails on a write only when the file system itself fails
C11_ParentsCreated ==
    /\ g_pc \in {"version", "apis"} => SRoot \in fs_dirs
    /\ m_result \in {"failed to dump object", "failed to write events"} =>
         faults > 0

\* the case C11 names: a typed pass fails on a write although the output
\* directory exists and no I/O error occurred
C11_TypedPassCase ==
    ~(/\ m_result = "failed to dump object"
      /\ faults = 0
      /\ SRoot \in fs_dirs)

-----------------------------------------------------------------------------
(* Claims about dump_pod *)

Kinds == {"Current", "Previous"}
FetchKey(f) == [pod |-> f.pod, container |-> f.container, kind |-> f.kind]
Made == {FetchKey(t_fetches[k]) : k \in 1..Len(t_fetches)}
Got == {FetchKey(t_fetches[k]) : k \in {n \in 1..Len(t_fetches) : t_fetches[n].got}}
Planned ==
    UNION {{[pod |-> t_list[j].name, container |-> t_list[j].containers[c],
             kind |-> kind] :
              c \in 1..Len(t_list[j].containers), kind \in Kinds} :
           j \in 1..Len(t_list)}
LogPath(f) ==
    Logs(ObjectLayout(opts.escape_paths, PodResource, Some(SNs), f.pod),
         f.kind, f.container)
FileName(path) ==
    IF SlashesOf(path) = {} THEN path
    ELSE SubSeq(path, Len(Parent(path)) + 2, Len(path))
IsLogFile(path) ==
    /\ Len(FileName(path)) >= Len(SLogs)
    /\ SubSeq(FileName(path), 1, Len(SLogs)) = SLogs
LogFiles == {path \in DOMAIN fs_files : IsLogFile(path)}
PodPassOk == m_pc = "configmaps" /\ t_pc = "list"

====
